---- MODULE Spec2Model ----
(***************************************************************************)
(* Model of src/app/app.py: the Request Server (HttpHandler on a           *)
(* single-threaded HTTPServer), the Message Store (storage/data.json) and  *)
(* the Notification Channel (the websockets server on port 6000).          *)
(*                                                                         *)
(* Requests are well-formed form submissions: the Content-Length header is *)
(* present and covers the body, and the body is valid UTF-8 (lines 41-43). *)
(* Strings are opaque; encodings are not modelled.                         *)
(*                                                                         *)
(* Specifications:                                                         *)
(*   Spec       the submission flow: POSTs, history reads, the delivery to *)
(*              the channel, the channel starting and dying, the clock;    *)
(*   SpecPages  page serving over every subset of the served files;        *)
(*   SpecWs     the channel serving several client connections;            *)
(*   SpecRace   the load-modify-save of a submission as separate steps of  *)
(*              handler instances of the single-threaded server;           *)
(*   SpecStore  save_message_to_json applied to arbitrary mappings.        *)
(***************************************************************************)
EXTENDS Naturals, Sequences, FiniteSets, TLC

VARIABLES
    files,         \* the regular files present under templates/ and static/
    file,          \* the backing file DATA_FILE: [exists, text]
    now,           \* the wall clock read by datetime.now(), in ticks
    wsUp,          \* the Notification Channel process is listening on port 6000
    wsQueue,       \* frames delivered to the channel and not yet read by ws_handler
    wsLog,         \* the record ws_handler logged last
    pc,            \* position of the Request Server: "idle" or a point inside do_POST
    message_data,  \* do_POST's local message_data of the request being/last handled
    conn,          \* the websocket connection of send_message of that request
    resp,          \* what that request put on the wire, and the exception that escaped
    fileBefore,    \* history: the backing file as that request found it
    accepted,      \* history: the {username, message} pairs persisted so far
    submitted,     \* history: the last (at most two) pairs persisted, in order
    rendered,      \* history: what the last (at most two) GETs of /history.html
                   \* since the last POST put on the wire
    wsConns,       \* the connections the channel has accepted from clients: per
                   \* connection [state, unread, sent, logged]
    handlers       \* handler instances of the Request Server inside
                   \* save_message_to_json: per instance [pc, md, data]

vars == <<files, file, now, wsUp, wsQueue, wsLog, pc, message_data, conn, resp,
          fileBefore, accepted, submitted, rendered, wsConns, handlers>>

----------------------------------------------------------------------------
(* Bounds *)

\* The clock runs over 0..MaxClock.
MaxClock == 5
\* Clock ticks per minute (60,000,000 microseconds in the program).
TicksPerMinute == 2
\* Minutes per day (1440 in the program).
MinutesPerDay == 2
\* Python's recursion limit (1000 by default), scaled down.
RecursionLimit == 3
\* Frames the channel holds unread before the next submission is taken.
MaxQueue == 1
\* Connections the channel serves at a time.
MaxConns == 2
\* Frames a client sends on one connection.
MaxFrames == 2
\* Handler instances a server could run at a time (the program's runs one).
MaxHandlers == 2
\* Entries of the mappings append is applied to.
MaxEntries == 2

----------------------------------------------------------------------------
(* Inputs *)

\* Request paths (urlparse(self.path).path) as the segments after the leading "/".
Paths ==
    { <<>>,                       \* "/"
      <<"message.html">>,
      <<"history.html">>,
      <<"success.html">>,
      <<"static", "style.css">>,
      <<"static", "logo.png">>,
      <<"static", "">>,           \* "/static/"
      <<"static">>,               \* "/static"
      <<"nope">> }

\* Form bodies: the name=value fields in order.
Bodies ==
    { <<>>,
      << <<"username", "">>, <<"message", "hi">> >>,
      << <<"username", "alice">> >>,
      << <<"username", "alice">>, <<"message", "hello">> >>,
      << <<"message", "hi">>, <<"username", "bob">> >> }

\* The paths of the submission flow: the history view and the confirmation page.
CorePaths == { <<"history.html">>, <<"success.html">> }

IndexPage == <<"templates", "index.html">>
MessagePage == <<"templates", "message.html">>
SuccessPage == <<"templates", "success.html">>
ErrorPage == <<"templates", "error.html">>
HistoryTemplate == <<"templates", "history.html">>

AllFiles ==
    { IndexPage, MessagePage, SuccessPage, ErrorPage, HistoryTemplate,
      <<"static", "style.css">> }

----------------------------------------------------------------------------
(* Python dicts: insertion-ordered sequences of [k, v] with distinct keys *)

EmptyDict == <<>>

HasKey(d, k) == \E i \in 1..Len(d) : d[i].k = k

Get(d, k) == d[CHOOSE i \in 1..Len(d) : d[i].k = k].v

\* d[k] = v
DictSet(d, k, v) ==
    IF HasKey(d, k)
    THEN [i \in 1..Len(d) |-> IF d[i].k = k THEN [k |-> k, v |-> v] ELSE d[i]]
    ELSE Append(d, [k |-> k, v |-> v])

Values(d) == { d[i].v : i \in 1..Len(d) }

----------------------------------------------------------------------------
(* Timestamps *)

TicksPerDay == MinutesPerDay * TicksPerMinute

\* datetime.strftime("%Y-%m-%d %H:%M:%S.%f"): <<date, hour:minute, second.micro>>
Strftime(t) ==
    << t \div TicksPerDay, (t % TicksPerDay) \div TicksPerMinute, t % TicksPerMinute >>

\* datetime.strptime(ts, "%Y-%m-%d %H:%M:%S.%f").strftime("%H:%M")
FormatHM(ts) == ts[2]

----------------------------------------------------------------------------
(* JSON *)

\* json.dump(data, file): the members of the object in order
JsonDump(data) ==
    [syntax |-> "object",
     members |-> [i \in 1..Len(data) |->
                    <<data[i].k, data[i].v.username, data[i].v.message>>]]

\* json.load(file): [exc, type, items]
JsonLoad(text) ==
    CASE text.syntax = "bad" ->
            [exc |-> "JSONDecodeError", type |-> "none", items |-> <<>>]
      [] text.syntax = "array" ->
            [exc |-> "none", type |-> "list", items |-> <<>>]
      [] OTHER ->
            [exc |-> "none", type |-> "dict",
             items |-> [i \in 1..Len(text.members) |->
                          [k |-> text.members[i][1],
                           v |-> [username |-> text.members[i][2],
                                  message |-> text.members[i][3]]]]]

\* Mutant: the frame is built without the record's timestamp.
JsonDumpsNoTimestamp(md) ==
    <<"username", md.username, "message", md.message, "timestamp", <<>> >>

\* json.dumps(message_data): the frame sent to the channel
JsonDumps(md) == <<"username", md.username, "message", md.message,
                   "timestamp", md.timestamp>>

\* json.loads(message) in ws_handler
JsonLoads(frame) ==
    [username |-> frame[2], message |-> frame[4], timestamp |-> frame[6]]

AbsentFile == [exists |-> FALSE, text |-> [syntax |-> "bad", members |-> <<>>]]
CorruptFile == [exists |-> TRUE, text |-> [syntax |-> "bad", members |-> <<>>]]
ArrayFile == [exists |-> TRUE, text |-> [syntax |-> "array", members |-> <<>>]]
EmptyObjectFile == [exists |-> TRUE, text |-> JsonDump(EmptyDict)]

\* open(DATA_FILE) and json.load under except (FileNotFoundError, JSONDecodeError):
\* [exc, type, items], exc being the exception caught
LoadStore(f) ==
    IF ~f.exists
    THEN [exc |-> "FileNotFoundError", type |-> "dict", items |-> EmptyDict]
    ELSE LET r == JsonLoad(f.text)
         IN  IF r.exc = "JSONDecodeError"
             THEN [exc |-> "JSONDecodeError", type |-> "dict", items |-> EmptyDict]
             ELSE r

----------------------------------------------------------------------------
(* What a handler puts on the wire *)

NoBody == [kind |-> "none", file |-> <<>>, view |-> <<>>]
FileBody(filename) == [kind |-> "file", file |-> filename, view |-> <<>>]
ViewBody(formatted) == [kind |-> "view", file |-> <<>>, view |-> formatted]
TextBody == [kind |-> "text", file |-> <<>>, view |-> <<>>]

\* Nothing sent yet, nothing raised.
NoResult ==
    [statuses |-> <<>>, ctype |-> "", location |-> "", body |-> NoBody,
     raised |-> "none"]

\* send_response(status); send_header("Content-type", ctype); wfile.write(body)
Sent(status, ctype, body) ==
    [statuses |-> <<status>>, ctype |-> ctype, location |-> "", body |-> body,
     raised |-> "none"]

\* An exception leaves the handler before anything is sent.
Raised(exc) == [NoResult EXCEPT !.raised = exc]

NoRequest == [method |-> "none", path |-> <<>>, form |-> <<>>]

----------------------------------------------------------------------------
(* Files served by do_GET *)

\* open(filename, "rb"): a regular file opens, a directory that holds a file
\* raises IsADirectoryError, anything else FileNotFoundError
Open(filename) ==
    CASE filename \in files -> "ok"
      [] \E f \in files :
            /\ Len(filename) = 2
            /\ f[1] = filename[1]
            /\ filename[2] = "" -> "IsADirectoryError"
      [] OTHER -> "FileNotFoundError"

\* str.endswith on the last segment of a file name
EndsWith(filename, suffix) ==
    /\ Len(filename) > 0
    /\ \/ suffix = ".css" /\ filename[Len(filename)] \in {"style.css"}
       \/ suffix = ".png" /\ filename[Len(filename)] \in {"logo.png"}

RECURSIVE send_html_file(_, _, _)
\* send_html_file(filename, status) at recursion depth `depth`
send_html_file(filename, status, depth) ==
    IF depth > RecursionLimit
    THEN Raised("RecursionError")
    ELSE CASE Open(filename) = "ok" ->
                Sent(status, "text/html", FileBody(filename))
           [] Open(filename) = "FileNotFoundError" ->
                send_html_file(ErrorPage, 404, depth + 1)
           [] OTHER -> Raised(Open(filename))

\* send_static_file(filename, status=200)
send_static_file(filename) ==
    CASE Open(filename) = "ok" ->
            Sent(200,
                 IF EndsWith(filename, ".css") THEN "text/css"
                 ELSE IF EndsWith(filename, ".png") THEN "image/png"
                 ELSE "",
                 FileBody(filename))
      [] Open(filename) = "FileNotFoundError" ->
            send_html_file(ErrorPage, 404, 2)
      [] OTHER -> Raised(Open(filename))

RECURSIVE FormatMessages(_)
\* the dict comprehension {strptime(ts).strftime("%H:%M"): content for ...}
FormatMessages(items) ==
    IF items = <<>>
    THEN EmptyDict
    ELSE LET n == Len(items)
         IN  DictSet(FormatMessages(SubSeq(items, 1, n - 1)),
                     FormatHM(items[n].k), items[n].v)

\* Mutant: the view carries the time of rendering.
show_messages_stamped ==
    IF HistoryTemplate \notin files
    THEN Raised("TemplateNotFound")
    ELSE LET messages == LoadStore(file)
         IN  IF messages.type # "dict"
             THEN Raised("AttributeError")
             ELSE Sent(200, "text/html",
                       ViewBody(DictSet(FormatMessages(messages.items),
                                        Strftime(now),
                                        [username |-> "", message |-> ""])))

\* show_messages()
show_messages ==
    IF HistoryTemplate \notin files
    THEN Raised("TemplateNotFound")
    ELSE LET messages == LoadStore(file)
         IN  IF messages.type # "dict"
             THEN Raised("AttributeError")
             ELSE Sent(200, "text/html", ViewBody(FormatMessages(messages.items)))

\* parsed_url.path.startswith("/static/")
StartsWithStatic(path) == Len(path) >= 2 /\ path[1] = "static"

\* do_GET's routing
Route(path) ==
    CASE path = <<>> -> send_html_file(IndexPage, 200, 1)
      [] path = <<"message.html">> -> send_html_file(MessagePage, 200, 1)
      [] path = <<"history.html">> -> show_messages
      [] path = <<"success.html">> -> send_html_file(SuccessPage, 200, 1)
      [] StartsWithStatic(path) -> send_static_file(path)
      [] OTHER -> send_html_file(ErrorPage, 404, 1)

\* history variables keep the last two of what they record
Remember(seq, pair) ==
    LET s == Append(seq, pair)
    IN  IF Len(s) > 2 THEN Tail(s) ELSE s

NoRecord == [username |-> "", message |-> "", timestamp |-> <<>>]
\* opened: connections opened; open: one is open now; alive: its peer, the
\* channel process that accepted it, still runs; sent: the frames sent;
\* failed: the delivery attempt raised
NoConn ==
    [opened |-> 0, open |-> FALSE, alive |-> FALSE, sent |-> <<>>,
     failed |-> FALSE]

\* Mutant: a history read that finds no readable backing file creates an
\* empty one.
do_GET_creating_store(path) ==
    /\ pc = "idle"
    /\ resp' = [req |-> [method |-> "GET", path |-> path, form |-> <<>>],
                out |-> Route(path)]
    /\ message_data' = NoRecord
    /\ conn' = NoConn
    /\ fileBefore' = file
    /\ rendered' = IF path = <<"history.html">>
                   THEN Remember(rendered, Route(path))
                   ELSE rendered
    /\ file' = IF path = <<"history.html">> /\ LoadStore(file).exc # "none"
               THEN EmptyObjectFile
               ELSE file
    /\ UNCHANGED <<wsLog, files, now, wsUp, wsQueue, pc, accepted, submitted>>
    /\ UNCHANGED <<wsConns, handlers>>

\* do_GET: one request handled to its end
do_GET(path) ==
    /\ pc = "idle"
    /\ resp' = [req |-> [method |-> "GET", path |-> path, form |-> <<>>],
                out |-> Route(path)]
    /\ message_data' = NoRecord
    /\ conn' = NoConn
    /\ fileBefore' = file
    /\ rendered' = IF path = <<"history.html">>
                   THEN Remember(rendered, Route(path))
                   ELSE rendered
    /\ UNCHANGED <<wsLog, files, file, now, wsUp, wsQueue, pc, accepted, submitted>>
    /\ UNCHANGED <<wsConns, handlers>>

----------------------------------------------------------------------------
(* Submissions: do_POST *)

\* parse_qs(body): name -> the list of its non-blank values (blank ones are dropped)
ParseQs(body) ==
    LET kept == SelectSeq(body, LAMBDA f : f[2] # "")
    IN  [name \in { kept[i][1] : i \in 1..Len(kept) } |->
            LET mine == SelectSeq(kept, LAMBDA f : f[1] = name)
            IN  [i \in 1..Len(mine) |-> mine[i][2]]]

\* parsed_data.get(name, [""])[0]
FormGet(parsed, name) == IF name \in DOMAIN parsed THEN parsed[name][1] ELSE ""

\* Mutant: only the username is checked.
ValidFormUsernameOnly(username, message) == username # ""

\* Mutant: `and` in place of `or`, one filled field is enough.
ValidFormEither(username, message) == username # "" \/ message # ""

\* not (not username or not message)
ValidForm(username, message) == username # "" /\ message # ""

\* message_data of lines 53-57
MessageData(username, message, t) ==
    [username |-> username, message |-> message, timestamp |-> Strftime(t)]

\* Mutant: the entry is set in a fresh mapping, not in the one loaded.
WithMessageAlone(data, md) ==
    DictSet(EmptyDict, md.timestamp,
            [username |-> md.username, message |-> md.message])

\* data[message_data["timestamp"]] = {username, message}
WithMessage(data, md) ==
    DictSet(data, md.timestamp, [username |-> md.username, message |-> md.message])

\* Mutant: only FileNotFoundError is caught, a corrupt file makes the save fail.
save_message_to_json_corrupt_escapes(f, md) ==
    LET loaded == LoadStore(f)
    IN  IF loaded.exc = "JSONDecodeError" \/ loaded.type # "dict"
        THEN [exc |-> IF loaded.type # "dict" THEN "TypeError"
                      ELSE "JSONDecodeError",
              file |-> f]
        ELSE [exc |-> "none",
              file |-> [exists |-> TRUE,
                        text |-> JsonDump(WithMessage(loaded.items, md))]]

\* Mutant: the write of the record is put off until after the delivery.
save_message_to_json_deferred(f, md) == [exc |-> "none", file |-> f]

\* save_message_to_json(message_data) on backing file f: [exc, file]
save_message_to_json(f, md) ==
    LET loaded == LoadStore(f)
    IN  IF loaded.type # "dict"
        THEN [exc |-> "TypeError", file |-> f]
        ELSE [exc |-> "none",
              file |-> [exists |-> TRUE,
                        text |-> JsonDump(WithMessage(loaded.items, md))]]

\* do_POST, lines 41-59: parse, validate, build the record, save it.
\* The clock has microsecond resolution and the single-threaded server takes
\* longer than that over a submission: the next reading of the clock is later.
do_POST(body) ==
    /\ pc = "idle"
    /\ Len(wsQueue) < MaxQueue
    /\ now < MaxClock
    /\ LET parsed_data == ParseQs(body)
           username == FormGet(parsed_data, "username")
           message == FormGet(parsed_data, "message")
           req == [method |-> "POST", path |-> <<>>, form |-> body]
           md == MessageData(username, message, now)
           saved == save_message_to_json(file, md)
       IN  IF ~ValidForm(username, message)
           THEN /\ resp' = [req |-> req,
                            out |-> [NoResult EXCEPT !.statuses = <<400>>,
                                                     !.body = TextBody]]
                /\ message_data' = NoRecord
                /\ UNCHANGED <<file, now, pc, accepted, submitted>>
           ELSE /\ message_data' = md
                /\ now' = now + 1
                /\ file' = saved.file
                /\ IF saved.exc # "none"
                   THEN /\ resp' = [req |-> req, out |-> Raised(saved.exc)]
                        /\ UNCHANGED <<pc, accepted, submitted>>
                   ELSE /\ resp' = [req |-> req, out |-> NoResult]
                        /\ pc' = "connect"
                        /\ accepted' = accepted \cup
                              {[username |-> username, message |-> message]}
                        /\ submitted' = Remember(submitted,
                              [username |-> username, message |-> message])
    /\ conn' = NoConn
    /\ fileBefore' = file
    /\ rendered' = <<>>
    /\ UNCHANGED <<wsLog, files, wsUp, wsQueue>>
    /\ UNCHANGED <<wsConns, handlers>>

\* Mutant: a refused delivery undoes the write of the submission.
PostConnectRollback ==
    /\ pc = "connect"
    /\ IF wsUp
       THEN /\ conn' = [conn EXCEPT !.opened = @ + 1, !.open = TRUE,
                                    !.alive = TRUE]
            /\ pc' = "send"
            /\ UNCHANGED <<resp, file>>
       ELSE /\ resp' = [resp EXCEPT !.out = Raised("ConnectionRefusedError")]
            /\ pc' = "idle"
            /\ conn' = [conn EXCEPT !.failed = TRUE]
            /\ file' = fileBefore
    /\ UNCHANGED <<wsLog, files, now, wsUp, wsQueue, message_data, fileBefore,
                   accepted, submitted>>
    /\ UNCHANGED <<rendered, wsConns, handlers>>

\* websockets.connect(uri): the connection is opened, or the connect is refused
\* and the exception leaves asyncio.run and do_POST
PostConnect ==
    /\ pc = "connect"
    /\ IF wsUp
       THEN /\ conn' = [conn EXCEPT !.opened = @ + 1, !.open = TRUE,
                                    !.alive = TRUE]
            /\ pc' = "send"
            /\ UNCHANGED resp
       ELSE /\ resp' = [resp EXCEPT !.out = Raised("ConnectionRefusedError")]
            /\ pc' = "idle"
            /\ conn' = [conn EXCEPT !.failed = TRUE]
    /\ UNCHANGED <<wsLog, files, file, now, wsUp, wsQueue, message_data, fileBefore,
                   accepted, submitted>>
    /\ UNCHANGED <<rendered, wsConns, handlers>>

\* await websocket.send(json.dumps(message_data)). On a connection whose peer
\* has died the write either raises (and the async with closes the connection)
\* or goes into the socket buffer and is lost.
PostSend ==
    /\ pc = "send"
    /\ \/ /\ conn.alive
          /\ wsQueue' = Append(wsQueue, JsonDumps(message_data))
          /\ conn' = [conn EXCEPT !.sent = Append(@, JsonDumps(message_data))]
          /\ pc' = "close"
          /\ UNCHANGED resp
       \/ /\ ~conn.alive
          /\ conn' = [conn EXCEPT !.sent = Append(@, JsonDumps(message_data))]
          /\ pc' = "close"
          /\ UNCHANGED <<wsQueue, resp>>
       \/ /\ ~conn.alive
          /\ resp' = [resp EXCEPT !.out = Raised("ConnectionClosedError")]
          /\ conn' = [conn EXCEPT !.open = FALSE, !.failed = TRUE]
          /\ pc' = "idle"
          /\ UNCHANGED wsQueue
    /\ UNCHANGED <<wsLog, files, file, now, wsUp, message_data, fileBefore, accepted,
                   submitted>>
    /\ UNCHANGED <<rendered, wsConns, handlers>>

\* leaving the async with: the connection is closed
PostClose ==
    /\ pc = "close"
    /\ conn' = [conn EXCEPT !.open = FALSE]
    /\ pc' = "respond"
    /\ UNCHANGED <<wsLog, files, file, now, wsUp, wsQueue, message_data, resp,
                   fileBefore, accepted, submitted>>
    /\ UNCHANGED <<rendered, wsConns, handlers>>

\* lines 69-71: the redirect
PostRespond ==
    /\ pc = "respond"
    /\ resp' = [resp EXCEPT !.out = [NoResult EXCEPT !.statuses = <<302>>,
                                                     !.location = "/success.html"]]
    /\ pc' = "idle"
    /\ UNCHANGED <<wsLog, files, file, now, wsUp, wsQueue, message_data, conn,
                   fileBefore, accepted, submitted>>
    /\ UNCHANGED <<rendered, wsConns, handlers>>

----------------------------------------------------------------------------
(* The Notification Channel process and the clock *)

\* run_websocket_server: the channel starts listening
WsStart ==
    /\ ~wsUp
    /\ wsUp' = TRUE
    /\ UNCHANGED <<wsLog, files, file, now, wsQueue, pc, message_data, conn, resp,
                   fileBefore, accepted, submitted>>
    /\ UNCHANGED <<rendered, wsConns, handlers>>

\* the channel process dies; what it had not read is lost, and so is the
\* peer of every connection it had accepted
WsCrash ==
    /\ wsUp
    /\ wsUp' = FALSE
    /\ wsQueue' = <<>>
    /\ conn' = [conn EXCEPT !.alive = FALSE]
    /\ UNCHANGED <<wsLog, files, file, now, pc, message_data, resp,
                   fileBefore, accepted, submitted>>
    /\ UNCHANGED <<rendered, wsConns, handlers>>

\* ws_handler: one frame is read, decoded and logged
ws_handler ==
    /\ wsUp
    /\ wsQueue # <<>>
    /\ LET data == JsonLoads(Head(wsQueue))
       IN  wsLog' = data
    /\ wsQueue' = Tail(wsQueue)
    /\ UNCHANGED <<files, file, now, wsUp, pc, message_data, conn, resp,
                   fileBefore, accepted, submitted>>
    /\ UNCHANGED <<rendered, wsConns, handlers>>

\* time passes
Tick ==
    /\ now < MaxClock
    /\ now' = now + 1
    /\ UNCHANGED <<wsLog, files, file, wsUp, wsQueue, pc, message_data, conn, resp,
                   fileBefore, accepted, submitted>>
    /\ UNCHANGED <<rendered, wsConns, handlers>>

----------------------------------------------------------------------------

ConnIds == 1..MaxConns
\* no connection on this slot yet
NoWsConn == [state |-> "none", unread |-> <<>>, sent |-> 0, logged |-> 0]

HandlerIds == 1..MaxHandlers
\* the handler instance is not handling a request
NoHandler == [pc |-> "free", md |-> NoRecord, data |-> EmptyDict]

InitialFiles == {AbsentFile, CorruptFile, ArrayFile, EmptyObjectFile}

\* The state after start-up, every served file in place.
Init ==
    /\ files = AllFiles
    /\ file \in InitialFiles
    /\ now = 0
    /\ wsUp \in BOOLEAN
    /\ wsQueue = <<>>
    /\ wsLog = NoRecord
    /\ pc = "idle"
    /\ message_data = NoRecord
    /\ conn = NoConn
    /\ resp = [req |-> NoRequest, out |-> NoResult]
    /\ fileBefore = file
    /\ accepted = {}
    /\ submitted = <<>>
    /\ rendered = <<>>
    /\ wsConns = [c \in ConnIds |-> NoWsConn]
    /\ handlers = [h \in HandlerIds |-> NoHandler]

Next ==
    \/ \E path \in CorePaths : do_GET(path)
    \/ \E body \in Bodies : do_POST(body)
    \/ PostConnect
    \/ PostSend
    \/ PostClose
    \/ PostRespond
    \/ WsStart
    \/ WsCrash
    \/ ws_handler
    \/ Tick

Spec == Init /\ [][Next]_vars

\* Page serving alone: any subset of the served files present, any request path.
InitPages ==
    /\ files \in SUBSET AllFiles
    /\ file \in InitialFiles
    /\ now = 0
    /\ wsUp = FALSE
    /\ wsQueue = <<>>
    /\ wsLog = NoRecord
    /\ pc = "idle"
    /\ message_data = NoRecord
    /\ conn = NoConn
    /\ resp = [req |-> NoRequest, out |-> NoResult]
    /\ fileBefore = file
    /\ accepted = {}
    /\ submitted = <<>>
    /\ rendered = <<>>
    /\ wsConns = [c \in ConnIds |-> NoWsConn]
    /\ handlers = [h \in HandlerIds |-> NoHandler]

NextPages == \E path \in Paths : do_GET(path)

SpecPages == InitPages /\ [][NextPages]_vars

----------------------------------------------------------------------------
(* The Notification Channel serving several client connections *)

\* a frame that is not JSON text
MalformedFrame == <<"{oops">>

\* json.loads(message) raises JSONDecodeError
JsonLoadsRaises(frame) == frame = MalformedFrame

\* What a client may send on a connection.
WsFrames == { JsonDumps(MessageData("alice", "hello", 0)), MalformedFrame }

\* websockets.serve(self.ws_handler, "0.0.0.0", 6000): a client connects and
\* the server starts a ws_handler coroutine for the connection on slot c
WsAccept(c) ==
    /\ wsUp
    /\ wsConns[c].state \in {"none", "closed", "failed"}
    /\ wsConns' = [wsConns EXCEPT ![c] = [NoWsConn EXCEPT !.state = "open"]]
    /\ UNCHANGED <<files, file, now, wsUp, wsQueue, wsLog, pc, message_data, conn,
                   resp, fileBefore, accepted, submitted, rendered, handlers>>

\* the client of connection c sends a frame
WsClientSend(c, frame) ==
    /\ wsConns[c].state = "open"
    /\ wsConns[c].sent < MaxFrames
    /\ wsConns' = [wsConns EXCEPT ![c].unread = Append(@, frame),
                                  ![c].sent = @ + 1]
    /\ UNCHANGED <<files, file, now, wsUp, wsQueue, wsLog, pc, message_data, conn,
                   resp, fileBefore, accepted, submitted, rendered, handlers>>

\* the client of connection c closes it; the frames already sent stay readable
WsClientClose(c) ==
    /\ wsConns[c].state = "open"
    /\ wsConns' = [wsConns EXCEPT ![c].state = "closing"]
    /\ UNCHANGED <<files, file, now, wsUp, wsQueue, wsLog, pc, message_data, conn,
                   resp, fileBefore, accepted, submitted, rendered, handlers>>

\* Mutant: a frame that fails to decode brings the whole server down.
ws_handler_conn_fatal(c) ==
    /\ wsUp
    /\ wsConns[c].state \in {"open", "closing"}
    /\ IF wsConns[c].unread # <<>>
       THEN LET message == Head(wsConns[c].unread)
            IN  IF JsonLoadsRaises(message)
                THEN /\ wsConns' = [d \in ConnIds |->
                                      IF wsConns[d].state \in {"open", "closing"}
                                      THEN [wsConns[d] EXCEPT !.state = "failed",
                                                              !.unread = <<>>]
                                      ELSE wsConns[d]]
                     /\ wsUp' = FALSE
                     /\ UNCHANGED wsLog
                ELSE /\ wsLog' = JsonLoads(message)
                     /\ wsConns' = [wsConns EXCEPT ![c].unread = Tail(@),
                                                   ![c].logged = @ + 1]
                     /\ UNCHANGED wsUp
       ELSE /\ wsConns[c].state = "closing"
            /\ wsConns' = [wsConns EXCEPT ![c].state = "closed"]
            /\ UNCHANGED <<wsLog, wsUp>>
    /\ UNCHANGED <<files, file, now, wsQueue, pc, message_data, conn,
                   resp, fileBefore, accepted, submitted, rendered, handlers>>

\* ws_handler on connection c, one turn of `async for message in websocket`:
\* the next frame is decoded and logged; a frame that fails to decode raises
\* out of the coroutine, which ends this connection alone (the library closes
\* it); with no frame left on a connection the client closed the loop ends
ws_handler_conn(c) ==
    /\ wsUp
    /\ wsConns[c].state \in {"open", "closing"}
    /\ IF wsConns[c].unread # <<>>
       THEN LET message == Head(wsConns[c].unread)
            IN  IF JsonLoadsRaises(message)
                THEN /\ wsConns' = [wsConns EXCEPT ![c].state = "failed",
                                                   ![c].unread = <<>>]
                     /\ UNCHANGED wsLog
                ELSE /\ wsLog' = JsonLoads(message)
                     /\ wsConns' = [wsConns EXCEPT ![c].unread = Tail(@),
                                                   ![c].logged = @ + 1]
       ELSE /\ wsConns[c].state = "closing"
            /\ wsConns' = [wsConns EXCEPT ![c].state = "closed"]
            /\ UNCHANGED wsLog
    /\ UNCHANGED wsUp
    /\ UNCHANGED <<files, file, now, wsQueue, pc, message_data, conn,
                   resp, fileBefore, accepted, submitted, rendered, handlers>>

\* The channel process alone, listening.
InitWs ==
    /\ files = AllFiles
    /\ file = AbsentFile
    /\ now = 0
    /\ wsUp = TRUE
    /\ wsQueue = <<>>
    /\ wsLog = NoRecord
    /\ pc = "idle"
    /\ message_data = NoRecord
    /\ conn = NoConn
    /\ resp = [req |-> NoRequest, out |-> NoResult]
    /\ fileBefore = file
    /\ accepted = {}
    /\ submitted = <<>>
    /\ rendered = <<>>
    /\ wsConns = [c \in ConnIds |-> NoWsConn]
    /\ handlers = [h \in HandlerIds |-> NoHandler]

NextWs ==
    \/ \E c \in ConnIds : WsAccept(c)
    \/ \E c \in ConnIds, frame \in WsFrames : WsClientSend(c, frame)
    \/ \E c \in ConnIds : WsClientClose(c)
    \/ \E c \in ConnIds : ws_handler_conn(c)

SpecWs == InitWs /\ [][NextWs]_vars

----------------------------------------------------------------------------
(* The load-modify-save of save_message_to_json, step by step *)

\* Mutant: a threading server, which takes a request whenever one arrives.
ServerFreeThreading == TRUE

\* HTTPServer.serve_forever handles one request at a time: the next request
\* is taken when the handler of the last one has returned
ServerFree == \A h \in HandlerIds : handlers[h].pc = "free"

\* lines 53-57 and 100-104: a valid submission is taken by handler instance h,
\* which reads the clock and loads the mapping from the backing file
save_load(h, body) ==
    /\ ServerFree
    /\ handlers[h].pc = "free"
    /\ now < MaxClock
    /\ LET parsed_data == ParseQs(body)
           username == FormGet(parsed_data, "username")
           message == FormGet(parsed_data, "message")
           loaded == LoadStore(file)
       IN  /\ ValidForm(username, message)
           /\ loaded.type = "dict"
           /\ handlers' = [handlers EXCEPT ![h] =
                             [pc |-> "loaded",
                              md |-> MessageData(username, message, now),
                              data |-> loaded.items]]
    /\ now' = now + 1
    /\ UNCHANGED <<files, file, wsUp, wsQueue, wsLog, pc, message_data, conn, resp,
                   fileBefore, accepted, submitted, rendered, wsConns>>

\* lines 106-112: the entry is set in the loaded mapping and the whole
\* mapping written over the backing file
save_write(h) ==
    /\ handlers[h].pc = "loaded"
    /\ file' = [exists |-> TRUE,
                text |-> JsonDump(WithMessage(handlers[h].data, handlers[h].md))]
    /\ handlers' = [handlers EXCEPT ![h].pc = "saved"]
    /\ accepted' = accepted \cup {[username |-> handlers[h].md.username,
                                    message |-> handlers[h].md.message]}
    /\ submitted' = Remember(submitted, [username |-> handlers[h].md.username,
                                         message |-> handlers[h].md.message])
    /\ UNCHANGED <<files, now, wsUp, wsQueue, wsLog, pc, message_data, conn, resp,
                   fileBefore, rendered, wsConns>>

\* lines 61-71: the rest of do_POST, after which the handler returns
handler_return(h) ==
    /\ handlers[h].pc = "saved"
    /\ handlers' = [handlers EXCEPT ![h] = NoHandler]
    /\ UNCHANGED <<files, file, now, wsUp, wsQueue, wsLog, pc, message_data, conn,
                   resp, fileBefore, accepted, submitted, rendered, wsConns>>

\* The Request Server taking submissions, the backing file absent, corrupt or
\* an empty mapping.
InitRace ==
    /\ files = AllFiles
    /\ file \in {AbsentFile, CorruptFile, EmptyObjectFile}
    /\ now = 0
    /\ wsUp = TRUE
    /\ wsQueue = <<>>
    /\ wsLog = NoRecord
    /\ pc = "idle"
    /\ message_data = NoRecord
    /\ conn = NoConn
    /\ resp = [req |-> NoRequest, out |-> NoResult]
    /\ fileBefore = file
    /\ accepted = {}
    /\ submitted = <<>>
    /\ rendered = <<>>
    /\ wsConns = [c \in ConnIds |-> NoWsConn]
    /\ handlers = [h \in HandlerIds |-> NoHandler]

NextRace ==
    \/ \E h \in HandlerIds, body \in Bodies : save_load(h, body)
    \/ \E h \in HandlerIds : save_write(h)
    \/ \E h \in HandlerIds : handler_return(h)

SpecRace == InitRace /\ [][NextRace]_vars

----------------------------------------------------------------------------
(* save_message_to_json applied to a backing file holding a mapping *)

StoreKeys == { Strftime(t) : t \in 0..MaxEntries }

StoreContents ==
    { [username |-> "alice", message |-> "hello"],
      [username |-> "bob", message |-> "hi"] }

\* The mappings of at most MaxEntries entries, the keys distinct.
Mappings ==
    UNION { { d \in [1..n -> [k : StoreKeys, v : StoreContents]] :
                \A i, j \in 1..n : i # j => d[i].k # d[j].k } :
            n \in 0..MaxEntries }

\* The records a submission can hand to save_message_to_json.
Records ==
    { [username |-> c.username, message |-> c.message, timestamp |-> ts] :
        c \in StoreContents, ts \in StoreKeys }

\* self.save_message_to_json(message_data), line 59
Save(md) ==
    /\ message_data' = md
    /\ fileBefore' = file
    /\ file' = save_message_to_json(file, md).file
    /\ UNCHANGED <<files, now, wsUp, wsQueue, wsLog, pc, conn, resp, accepted,
                   submitted, rendered, wsConns, handlers>>

InitStore ==
    /\ files = AllFiles
    /\ file \in { [exists |-> TRUE, text |-> JsonDump(d)] : d \in Mappings }
    /\ now = 0
    /\ wsUp = TRUE
    /\ wsQueue = <<>>
    /\ wsLog = NoRecord
    /\ pc = "idle"
    /\ message_data = NoRecord
    /\ conn = NoConn
    /\ resp = [req |-> NoRequest, out |-> NoResult]
    /\ fileBefore = file
    /\ accepted = {}
    /\ submitted = <<>>
    /\ rendered = <<>>
    /\ wsConns = [c \in ConnIds |-> NoWsConn]
    /\ handlers = [h \in HandlerIds |-> NoHandler]

NextStore == \E md \in Records : Save(md)

SpecStore == InitStore /\ [][NextStore]_vars

----------------------------------------------------------------------------
(* Vocabulary of the claims *)

\* The request being or last handled, and whether its handler has returned.
IsPost == resp.req.method = "POST"
IsGet(path) == resp.req.method = "GET" /\ resp.req.path = path
Returned == pc = "idle"

\* The form carries a non-empty value for the field `name`.
NonEmptyField(form, name) ==
    \E i \in 1..Len(form) : form[i][1] = name /\ form[i][2] # ""

ValidSubmission ==
    /\ IsPost
    /\ NonEmptyField(resp.req.form, "username")
    /\ NonEmptyField(resp.req.form, "message")

InvalidSubmission ==
    /\ IsPost
    /\ \/ ~NonEmptyField(resp.req.form, "username")
       \/ ~NonEmptyField(resp.req.form, "message")

\* The delivery to the channel went through: one frame sent, connection closed.
Delivered == conn.opened > 0 /\ conn.sent # <<>> /\ ~conn.open /\ ~conn.failed

Redirected ==
    /\ resp.out.statuses = <<302>>
    /\ resp.out.location = "/success.html"
    /\ resp.out.raised = "none"

\* The mapping read back from backing file f holds md under its timestamp key.
Holds(f, md) ==
    LET m == LoadStore(f)
    IN  /\ m.type = "dict"
        /\ HasKey(m.items, md.timestamp)
        /\ Get(m.items, md.timestamp) =
              [username |-> md.username, message |-> md.message]

\* A history view was rendered, and it shows the pair.
ViewRendered == IsGet(<<"history.html">>) /\ resp.out.body.kind = "view"
Shown(pair) == pair \in Values(resp.out.body.view)

ErrorPageSent ==
    /\ resp.out.statuses = <<404>>
    /\ resp.out.body = FileBody(ErrorPage)
    /\ resp.out.raised = "none"

----------------------------------------------------------------------------
(* C1 *)

\* C1: every POST with a non-empty username and message is answered 302 with
\* Location /success.html, whether the delivery to the channel went through
\* or failed.
C1_RedirectWhateverDelivery ==
    (ValidSubmission /\ Returned /\ (Delivered \/ conn.failed)) => Redirected

----------------------------------------------------------------------------
(* C2 *)

----------------------------------------------------------------------------
(* C3 *)

\* C3: once a submission has been accepted, every history view rendered
\* afterwards contains a record with its username and message.
C3_HistoryShowsEveryAccepted ==
    ViewRendered => \A pair \in accepted : Shown(pair)

----------------------------------------------------------------------------
(* C4 *)

\* C4: after two valid submissions handled one after the other, the history
\* view rendered afterwards contains both.
C4_HistoryShowsBothSubmissions ==
    (ViewRendered /\ Len(submitted) = 2) =>
        (Shown(submitted[1]) /\ Shown(submitted[2]))

----------------------------------------------------------------------------
(* C5 *)

\* C5: when the delivery attempt fails, the backing file still holds the
\* record the same submission wrote.
C5_DeliveryFailureKeepsRecord ==
    (IsPost /\ conn.failed) => Holds(file, message_data)

C5_Witness ==
    /\ IsPost
    /\ conn.failed
    /\ Returned
    /\ resp.out.raised = "ConnectionRefusedError"
    /\ Len(LoadStore(file).items) = 2

----------------------------------------------------------------------------
(* C6 *)

\* The backing file is absent, corrupt, or holds a mapping.
PriorState(f) == ~f.exists \/ f.text.syntax \in {"bad", "object"}

\* C6: whatever the backing file was (absent, corrupt, or a valid mapping),
\* after append(record) a load yields a mapping holding the record's
\* username and message under its timestamp key.
C6_AppendThenLoad ==
    (IsPost /\ message_data # NoRecord /\ PriorState(fileBefore)) =>
        Holds(file, message_data)

C6_Witness ==
    /\ IsPost
    /\ message_data # NoRecord
    /\ fileBefore = CorruptFile
    /\ Holds(file, message_data)

----------------------------------------------------------------------------
(* C7 *)

\* C7: GET /history.html never fails outward, whatever the backing file
\* holds, and when the file is missing or cannot be parsed it answers 200
\* with an empty list.
C7_HistoryReadNeverFails ==
    IsGet(<<"history.html">>) =>
        /\ resp.out.raised = "none"
        /\ (~file.exists \/ file.text.syntax = "bad") =>
              /\ resp.out.statuses = <<200>>
              /\ resp.out.body = ViewBody(EmptyDict)

----------------------------------------------------------------------------
(* C8 *)

\* The paths do_GET is meant to route: /, the three pages, and /static/*.
KnownPath(path) ==
    \/ path \in { <<>>, <<"message.html">>, <<"history.html">>,
                  <<"success.html">> }
    \/ (Len(path) >= 2 /\ path[1] = "static")

\* C8: a GET for any other path is answered with the error page and 404.
C8_UnknownPathIs404 ==
    (resp.req.method = "GET" /\ ~KnownPath(resp.req.path)) => ErrorPageSent

----------------------------------------------------------------------------
(* C9 *)

\* The file a known path is served from.
ServedFile(path) ==
    CASE path = <<>> -> IndexPage
      [] path = <<"message.html">> -> MessagePage
      [] path = <<"history.html">> -> HistoryTemplate
      [] path = <<"success.html">> -> SuccessPage
      [] OTHER -> path

\* C9: a GET for a page or asset whose file does not exist is answered with
\* the error page and 404, and no error escapes the handler.
C9_MissingFileIs404 ==
    (/\ resp.req.method = "GET"
     /\ KnownPath(resp.req.path)
     /\ Open(ServedFile(resp.req.path)) = "FileNotFoundError") => ErrorPageSent

----------------------------------------------------------------------------
(* C10 *)

\* The frame carries the username, message and timestamp of md.
Carries(frame, md) ==
    /\ JsonLoads(frame).username = md.username
    /\ JsonLoads(frame).message = md.message
    /\ JsonLoads(frame).timestamp = md.timestamp

\* C10: a submission whose delivery goes through opens one connection, sends
\* exactly one frame on it, the frame carrying the record that was persisted,
\* and has closed the connection by the time it answers.
C10_OneConnectionOneFrame ==
    /\ (IsPost /\ pc = "send") =>
          (conn.opened = 1 /\ conn.open /\ conn.sent = <<>>)
    /\ (IsPost /\ pc = "close") =>
          /\ conn.opened = 1 /\ conn.open
          /\ Len(conn.sent) = 1
    /\ (IsPost /\ (pc = "respond" \/ Redirected)) =>
          /\ conn.opened = 1 /\ ~conn.open
          /\ Len(conn.sent) = 1
    /\ (IsPost /\ conn.sent # <<>>) =>
          /\ Carries(conn.sent[1], message_data)
          /\ Holds(file, message_data)

C10_Witness ==
    /\ ValidSubmission
    /\ Redirected
    /\ conn.alive
    /\ Delivered
    /\ Len(LoadStore(file).items) = 2

----------------------------------------------------------------------------
(* C11 *)

\* The connection takes frames from its client and has them read.
Serving(c) == wsConns[c].state \in {"open", "closing"}

\* The step is ws_handler failing on connection c.
FailsOn(c) == Serving(c) /\ wsConns'[c].state = "failed"

\* C11: a frame that fails to decode ends the connection it came on and
\* nothing else: the step leaves every other connection and the server as
\* they were; beside a failed connection, the server is up, every connection
\* with an unread frame can have it read and logged, and every free slot can
\* take a new connection.
C11_BadFrameEndsItsConnectionOnly ==
    /\ [][\A c \in ConnIds :
            FailsOn(c) =>
                /\ wsUp'
                /\ \A d \in ConnIds \ {c} : wsConns'[d] = wsConns[d]]_vars
    /\ []((\E c \in ConnIds : wsConns[c].state = "failed") =>
            /\ wsUp
            /\ \A d \in ConnIds :
                  /\ (Serving(d) /\ wsConns[d].unread # <<>>) =>
                        ENABLED ws_handler_conn(d)
                  /\ ~Serving(d) => ENABLED WsAccept(d))

\* One connection has failed on a bad frame; another is open, has had a frame
\* logged and holds one unread.
C11_Witness ==
    \E c, d \in ConnIds :
        /\ c # d
        /\ wsConns[c].state = "failed"
        /\ wsConns[d].state = "open"
        /\ wsConns[d].logged = 1
        /\ wsConns[d].unread # <<>>
        /\ wsLog # NoRecord

----------------------------------------------------------------------------
(* C12 *)

\* C12: two renderings of the history view with no submission between them
\* put the same output on the wire.
C12_HistoryRenderedTwiceIsSame ==
    Len(rendered) = 2 => rendered[1] = rendered[2]

\* The view was rendered twice over a store of two records, the clock having
\* moved on since the last of them was written.
C12_Witness ==
    /\ Len(rendered) = 2
    /\ rendered[2].body.kind = "view"
    /\ rendered[2].body.view # EmptyDict
    /\ Len(LoadStore(file).items) = 2
    /\ IsGet(<<"history.html">>)
    /\ \A i \in 1..2 : LoadStore(file).items[i].k # Strftime(now - 1)

----------------------------------------------------------------------------
(* C13 *)

\* The handler instance is between its load and its write.
Loaded(h) == handlers[h].pc = "loaded"

\* The entries of the mapping in the backing file.
Stored == LoadStore(file).items

\* C13 as stated: the load-modify-save is not atomic, two submissions can
\* interleave: while one submission is between its load and its write, the
\* Request Server can take another (whose write would then clobber the
\* first one's, or be clobbered by it).
C13_SubmissionsInterleave ==
    ((\E h \in HandlerIds : Loaded(h)) /\ now < MaxClock) =>
        ENABLED (\E h \in HandlerIds, body \in Bodies : save_load(h, body))

\* C13 amended: the load-modify-save takes no lock, but the Request Server
\* handles one request at a time, so that no two submissions are ever inside
\* it together and no write removes or changes an entry written before it:
\* there is no lost update.
C13_NoLostUpdate ==
    /\ [](Cardinality({h \in HandlerIds : handlers[h].pc # "free"}) <= 1)
    /\ [][\A i \in 1..Len(Stored) :
            /\ HasKey(Stored', Stored[i].k)
            /\ Get(Stored', Stored[i].k) = Stored[i].v]_vars

\* Two submissions with different content have been written, both are in
\* the store, and a third is between its load and its write.
C13_Witness ==
    /\ Len(Stored) = 2
    /\ Cardinality(accepted) = 2
    /\ \A pair \in accepted : pair \in Values(Stored)
    /\ \E h \in HandlerIds : Loaded(h)

----------------------------------------------------------------------------
(* C14 *)

\* The mapping the last save found, and the one it left.
Before == LoadStore(fileBefore).items
After == LoadStore(file).items

\* The backing file holds a valid mapping.
ValidMapping(f) == f.exists /\ f.text.syntax = "object"

\* C14: on a backing file holding a valid mapping, append(record) sets the
\* entry under the record's timestamp and changes nothing else: every other
\* key keeps its value, no key is removed, no other key appears.
C14_AppendChangesOneEntry ==
    (message_data # NoRecord /\ ValidMapping(fileBefore)) =>
        /\ Holds(file, message_data)
        /\ \A i \in 1..Len(Before) :
              /\ HasKey(After, Before[i].k)
              /\ Before[i].k # message_data.timestamp =>
                    Get(After, Before[i].k) = Before[i].v
        /\ \A j \in 1..Len(After) :
              /\ After[j].k # message_data.timestamp => HasKey(Before, After[j].k)
              /\ \A i \in 1..Len(After) : i # j => After[i].k # After[j].k

\* The record's key was in the mapping with other content, beside another
\* entry: the save overwrote the one and kept the other.
C14_Witness ==
    /\ message_data # NoRecord
    /\ ValidMapping(fileBefore)
    /\ Len(Before) = 2
    /\ HasKey(Before, message_data.timestamp)
    /\ Get(Before, message_data.timestamp) # Get(After, message_data.timestamp)
    /\ Len(After) = 2

----------------------------------------------------------------------------
(* C15 *)

\* C15: a GET, of the history view or of anything else, leaves the backing
\* file as it found it; the truncation of the timestamps to hour and minute
\* is in the view and not in the store.
C15_GetLeavesStoreAlone ==
    resp.req.method = "GET" => file = fileBefore

\* The view shows two stored records under one hour:minute label, and the
\* store still holds both under their full timestamps.
C15_Witness ==
    /\ ViewRendered
    /\ Len(resp.out.body.view) = 1
    /\ Len(LoadStore(file).items) = 2
    /\ file = fileBefore
    /\ \A i \in 1..2 : Len(LoadStore(file).items[i].k) = 3

----------------------------------------------------------------------------
(* C16 *)

\* The delivery attempt of the submission being handled has started.
DeliveryStarted == pc \in {"send", "close", "respond"} \/ conn.opened > 0 \/ conn.failed

\* The submission being or last handled was answered.
Answered == IsPost /\ message_data # NoRecord /\ resp.out.statuses # <<>>

\* C16: the record of a submission is in the store before its delivery
\* attempt starts, and the attempt is over before the response is sent; so
\* every record the channel holds unread or has logged is in the store.
C16_StoredThenDeliveredThenAnswered ==
    /\ (IsPost /\ pc = "connect") => Holds(file, message_data)
    /\ (IsPost /\ DeliveryStarted) => Holds(file, message_data)
    /\ Answered => (Returned /\ Delivered)
    /\ \A i \in 1..Len(wsQueue) : Holds(file, JsonLoads(wsQueue[i]))
    /\ wsLog # NoRecord => Holds(file, wsLog)

\* The channel has logged the record of the submission that was just
\* answered, the second one stored.
C16_Witness ==
    /\ Answered
    /\ Redirected
    /\ wsLog = message_data
    /\ Holds(file, wsLog)
    /\ Len(LoadStore(file).items) = 2

----------------------------------------------------------------------------
(* C17 *)

\* C17: whatever POSTs and GETs were handled, every entry of the store has
\* a non-empty username and a non-empty message.
C17_EntriesHaveBothFields ==
    \A i \in 1..Len(Stored) :
        Stored[i].v.username # "" /\ Stored[i].v.message # ""

\* Two records are stored and a submission with an empty field has just
\* been turned down.
C17_Witness ==
    /\ Len(Stored) = 2
    /\ InvalidSubmission
    /\ resp.req.form # <<>>
    /\ Returned
    /\ file = fileBefore

----------------------------------------------------------------------------
(* C18 *)

\* C18: whichever of the page, asset and error-page files are present, the
\* handling of a GET comes to its end having sent exactly one response
\* status, 200 or 404, no exception leaving the handler.
C18_GetSendsOneStatus ==
    resp.req.method = "GET" =>
        /\ resp.out.raised = "none"
        /\ Len(resp.out.statuses) = 1
        /\ resp.out.statuses[1] \in {200, 404}

====
